---- MODULE Spec2Model ----
(***************************************************************************)
(* Notes backend: the three storage tiers (SQLite = Primary Store, JSON    *)
(* files = Mirror Store, Firestore = Remote Replica), the DualAdapter that *)
(* reconciles them, and the /sync and /notes route handlers.               *)
(*                                                                         *)
(* Requests are served one at a time: a POST /sync/push is begun, its loop  *)
(* runs one iteration per step, and it answers before another request is   *)
(* taken.  Every other handler is one step.                                *)
(*                                                                         *)
(* MergeSpec  a GET /sync/pull whose find merges Firestore documents, one   *)
(*           step per await, running beside one caller's push.             *)
(* FilterSpec  the WHERE clause of SQLite's find and matchesFilters applied *)
(*           to one stored note, for text and date filters.                *)
(* ReadSpec  the reads of the adapter (get, find) on notes and tombstones   *)
(*           while Firestore reads may fail.                               *)
(* ScenarioSpec  one-note pushes of the notes A, B, C, D of one id by either *)
(*           caller, and pulls, from the empty server.                     *)
(* AsyncSpec two callers' one-note pushes of one id running concurrently,    *)
(*           one step per await; AsyncLive adds the fairness of the event  *)
(*           loop and of the local stores, and none for Firestore.         *)
(* Spec      the /sync routes and the /notes routes on one note, push      *)
(*           bodies of at most one note, no I/O fault.                     *)
(* StoreSpec the adapter's upsert, get and find through POST /notes, GET   *)
(*           /notes/:id, GET /sync/pull and GET /notes, with up to         *)
(*           MaxFaults failing I/O calls.                                  *)
(* BatchSpec POST /sync/push alone, with bodies of up to MaxBatch notes and *)
(*           up to MaxFaults failing SQLite calls.                         *)
(***************************************************************************)
EXTENDS Integers, Sequences, FiniteSets, TLC

VARIABLES
  sqlite,     \* Primary Store: id -> row of table notes
  files,      \* Mirror Store: id -> contents of <id>.json
  remote,     \* Remote Replica: id -> Firestore document of collection notes
  firestore,  \* whether admin.firestore() is available (getFirestoreSafe)
  now,        \* Date.now(); the clock does not advance within a behaviour
  req,        \* the POST /sync/push being served: caller, loop position, results;
              \* and, per caller, a push running concurrently with the others
  resp,       \* the last response sent
  faults      \* I/O faults injected so far

vars == <<sqlite, files, remote, firestore, now, req, resp, faults>>

----------------------------------------------------------------------------
(* Bounds *)

MaxTime == 2      \* the clock and client timestamps range over 0..MaxTime
MaxBatch == 2     \* notes in one push body
MaxFaults == 1    \* I/O faults injected in one behaviour

Users == {"u1", "u2"}
Ids == {1, 2}
Titles == {"A", "B"}

(* JavaScript null / undefined, per type of the field that holds it *)
Nil == "nil"
NoId == 0
NoTs == -1

(* v ?? d, and truthiness, for a string-valued and a number-valued field *)
NullishStr(v) == v = Nil
NullishNum(v) == v = NoTs
TruthyStr(v) == v \notin {Nil, ""}
TruthyNum(v) == v \notin {NoTs, 0}

Times == 0..MaxTime

----------------------------------------------------------------------------
(* Maps id -> record, as functions on the set of ids present *)

NoRecords == [x \in {} |-> 0]
Has(m, id) == id \in DOMAIN m
Put(m, id, v) == [x \in (DOMAIN m) \cup {id} |-> IF x = id THEN v ELSE m[x]]

(* { ...old, ...new } and Firestore's set(doc, {merge: true}) on top-level fields *)
MergeDoc(old, new) ==
  [k \in (DOMAIN old) \cup (DOMAIN new) |-> IF k \in DOMAIN new THEN new[k] ELSE old[k]]

----------------------------------------------------------------------------
(* I/O environment of one handler step: which calls succeed *)

Envs == [sqlRead : BOOLEAN, sqlWrite : BOOLEAN, file : BOOLEAN,
         rRead : BOOLEAN, rWrite : BOOLEAN]
AllOk == [sqlRead |-> TRUE, sqlWrite |-> TRUE, file |-> TRUE,
          rRead |-> TRUE, rWrite |-> TRUE]
Cost(E) == Cardinality({k \in DOMAIN E : ~E[k]})

(* The three tiers as one value *)
Tiers == [sql |-> sqlite, file |-> files, rem |-> remote]

----------------------------------------------------------------------------
(* adapters/sqliteAdapter.js *)

SqlRow(note) ==
  [id |-> note.id,
   uid |-> IF TruthyStr(note.uid) THEN note.uid ELSE Nil,
   title |-> note.title, body |-> note.body,
   createdAt |-> note.createdAt, updatedAt |-> note.updatedAt,
   date |-> note.date, time |-> note.time,
   tags |-> [json |-> note.tags],
   isDeleted |-> IF note.isDeleted THEN 1 ELSE 0]

RowToNote(row) ==
  [id |-> row.id, uid |-> row.uid, title |-> row.title, body |-> row.body,
   createdAt |-> row.createdAt, updatedAt |-> row.updatedAt,
   date |-> row.date, time |-> row.time,
   tags |-> row.tags.json,
   isDeleted |-> (row.isDeleted # 0)]

SqliteGet(sql, id) == IF Has(sql, id) THEN <<RowToNote(sql[id])>> ELSE <<>>

(* Faulty variant: INSERT OR IGNORE, an existing row is left as it is *)
SqliteInsertOnly(sql, note) ==
  IF SqliteGet(sql, note.id) # <<>> THEN sql ELSE Put(sql, note.id, SqlRow(note))

(* Faulty variant: UPDATE flips isDeleted instead of setting it *)
SqliteUpsertFlipping(sql, note) ==
  IF SqliteGet(sql, note.id) # <<>>
  THEN [sql EXCEPT ![note.id] = [SqlRow(note) EXCEPT !.isDeleted = 1 - sql[note.id].isDeleted]]
  ELSE Put(sql, note.id, SqlRow(note))

SqliteUpsert(sql, note) ==
  IF SqliteGet(sql, note.id) # <<>>
  THEN [sql EXCEPT ![note.id] = SqlRow(note)]
  ELSE Put(sql, note.id, SqlRow(note))

----------------------------------------------------------------------------
(* adapters/fileAdapter.js *)

FileUpsert(fl, note, ok) == IF ok THEN Put(fl, note.id, note) ELSE fl

----------------------------------------------------------------------------
(* adapters/dualAdapter.js *)

(* firestore.collection('notes').doc(id).set(note, {merge: true}) *)
RemoteSet(rem, note) ==
  IF Has(rem, note.id)
  THEN [rem EXCEPT ![note.id] = MergeDoc(rem[note.id], note)]
  ELSE Put(rem, note.id, note)

(* Faulty variant: a record read from Firestore is not cached *)
CacheNothing(T, note, E) == T

(* Caching of a record read from Firestore: SQLite, then the file; a failure
   is logged and ends the caching. *)
CacheLocally(T, note, E) ==
  IF E.sqlRead /\ E.sqlWrite
  THEN [T EXCEPT !.sql = SqliteUpsert(T.sql, note),
                 !.file = FileUpsert(T.file, note, E.file)]
  ELSE T

(* Faulty variant: get(id) asks Firestore first and SQLite only when Firestore
   has nothing *)
DualGetRemoteFirst(T, id, E) ==
  IF ~E.sqlRead THEN [T |-> T, val |-> <<>>, threw |-> TRUE]
  ELSE IF firestore /\ E.rRead /\ Has(T.rem, id)
       THEN [T |-> CacheLocally(T, T.rem[id], E), val |-> <<T.rem[id]>>, threw |-> FALSE]
  ELSE [T |-> T, val |-> SqliteGet(T.sql, id), threw |-> FALSE]

(* get(id): [T: the tiers afterwards, val: <<>> or <<note>>, threw] *)
DualGet(T, id, E) ==
  IF ~E.sqlRead THEN [T |-> T, val |-> <<>>, threw |-> TRUE]
  ELSE IF SqliteGet(T.sql, id) # <<>>
       THEN [T |-> T, val |-> SqliteGet(T.sql, id), threw |-> FALSE]
  ELSE IF ~firestore THEN [T |-> T, val |-> <<>>, threw |-> FALSE]
  ELSE IF ~E.rRead THEN [T |-> T, val |-> <<>>, threw |-> FALSE]
  ELSE IF ~Has(T.rem, id) THEN [T |-> T, val |-> <<>>, threw |-> FALSE]
  ELSE [T |-> CacheLocally(T, T.rem[id], E), val |-> <<T.rem[id]>>, threw |-> FALSE]

(* Faulty variant: upsert(note) rethrows a failure of the Firestore write *)
DualUpsertStrict(T, note, E) ==
  LET fl == FileUpsert(T.file, note, E.file) IN
  IF ~(E.sqlRead /\ E.sqlWrite)
  THEN [T |-> [T EXCEPT !.file = fl], threw |-> TRUE]
  ELSE LET T1 == [T EXCEPT !.sql = SqliteUpsert(T.sql, note), !.file = fl] IN
       IF firestore /\ E.rWrite
       THEN [T |-> [T1 EXCEPT !.rem = RemoteSet(T.rem, note)], threw |-> FALSE]
       ELSE [T |-> T1, threw |-> firestore]

(* Faulty variant: upsert(note) returns without having written *)
DualUpsertDropping(T, note, E) == [T |-> T, threw |-> FALSE]

(* upsert(note): [T, threw].  Promise.all starts both local writes; the file
   write swallows its own error, the SQLite one rejects the upsert. *)
DualUpsert(T, note, E) ==
  LET fl == FileUpsert(T.file, note, E.file) IN
  IF ~(E.sqlRead /\ E.sqlWrite)
  THEN [T |-> [T EXCEPT !.file = fl], threw |-> TRUE]
  ELSE LET T1 == [T EXCEPT !.sql = SqliteUpsert(T.sql, note), !.file = fl] IN
       IF firestore /\ E.rWrite
       THEN [T |-> [T1 EXCEPT !.rem = RemoteSet(T.rem, note)], threw |-> FALSE]
       ELSE [T |-> T1, threw |-> FALSE]

(* Faulty variant: the WHERE clause without `uid = ?` *)
SqlMatchAnyOwner(row, f) ==
  /\ ~f.includeDeleted => row.isDeleted = 0
  /\ TruthyNum(f.updatedAfter) => row.updatedAt > f.updatedAfter

(* find(filters) of the SQLite adapter: the WHERE clause, and the rows in
   ORDER BY updatedAt DESC (rows of equal updatedAt come in an order SQLite
   does not fix) *)
SqlMatch(row, f) ==
  /\ TruthyStr(f.uid) => row.uid = f.uid
  /\ ~f.includeDeleted => row.isDeleted = 0
  /\ TruthyNum(f.updatedAfter) => row.updatedAt > f.updatedAfter

Orders(S) ==
  {s \in [1..Cardinality(S) -> S] : \A i, j \in DOMAIN s : i # j => s[i] # s[j]}

SqliteFind(sql, f) ==
  LET hit == {id \in DOMAIN sql : SqlMatch(sql[id], f)} IN
  {[i \in DOMAIN o |-> RowToNote(sql[o[i]])] :
     o \in {s \in Orders(hit) :
              \A i, j \in DOMAIN s : i < j => sql[s[i]].updatedAt >= sql[s[j]].updatedAt}}

(* A faulty variant: the Firestore documents are not filtered on isDeleted *)
matchesFiltersKeepingDeleted(note, f) ==
  /\ ~(TruthyStr(f.uid) /\ note.uid # f.uid)
  /\ ~(TruthyNum(f.updatedAfter) /\ note.updatedAt <= f.updatedAfter)

(* matchesFilters(note, filters), applied to the Firestore documents *)
matchesFilters(note, f) ==
  /\ ~(~f.includeDeleted /\ note.isDeleted)
  /\ ~(TruthyStr(f.uid) /\ note.uid # f.uid)
  /\ ~(TruthyNum(f.updatedAfter) /\ note.updatedAt <= f.updatedAfter)

(* q.where('uid', '==', filters.uid).get(): the documents, by document id *)
RECURSIVE IdsAscending(_)
IdsAscending(S) ==
  IF S = {} THEN <<>>
  ELSE LET m == CHOOSE x \in S : \A y \in S : x <= y
       IN <<m>> \o IdsAscending(S \ {m})

RemoteQuery(rem, f) ==
  LET hit == {id \in DOMAIN rem : TruthyStr(f.uid) => rem[id].uid = f.uid}
      o == IdsAscending(hit)
  IN [i \in DOMAIN o |-> rem[o[i]]]

(* merged.sort((a, b) => (b.updatedAt || 0) - (a.updatedAt || 0)): stable *)
RECURSIVE InsertDesc(_, _)
InsertDesc(s, n) ==
  IF s = <<>> THEN <<n>>
  ELSE IF n.updatedAt > Head(s).updatedAt THEN <<n>> \o s
  ELSE <<Head(s)>> \o InsertDesc(Tail(s), n)

RECURSIVE SortByUpdatedAtDesc(_)
SortByUpdatedAtDesc(s) ==
  IF s = <<>> THEN <<>>
  ELSE InsertDesc(SortByUpdatedAtDesc(SubSeq(s, 1, Len(s) - 1)), s[Len(s)])

(* The loop over filteredRemote: a document whose id is not among the local
   results is appended and cached.  [T, merged] *)
RECURSIVE MergeRemote(_, _, _, _, _)
MergeRemote(T, merged, localIds, rs, E) ==
  IF rs = <<>> THEN [T |-> T, merged |-> merged]
  ELSE IF Head(rs).id \in localIds
       THEN MergeRemote(T, merged, localIds, Tail(rs), E)
       ELSE MergeRemote(CacheLocally(T, Head(rs), E), Append(merged, Head(rs)),
                        localIds, Tail(rs), E)

(* A faulty variant: find(filters) rethrows a failure of the Firestore query *)
DualFindRethrowing(T, f, localNotes, E) ==
  IF ~E.sqlRead THEN [T |-> T, val |-> <<>>, threw |-> TRUE]
  ELSE IF ~firestore THEN [T |-> T, val |-> localNotes, threw |-> FALSE]
  ELSE IF ~E.rRead THEN [T |-> T, val |-> <<>>, threw |-> TRUE]
  ELSE LET remoteNotes == RemoteQuery(T.rem, f)
           filteredRemote == SelectSeq(remoteNotes, LAMBDA n : matchesFilters(n, f))
           m == MergeRemote(T, localNotes,
                            {localNotes[i].id : i \in DOMAIN localNotes},
                            filteredRemote, E)
       IN [T |-> m.T, val |-> SortByUpdatedAtDesc(m.merged), threw |-> FALSE]

(* find(filters), given the rows SQLite returned: [T, val, threw] *)
DualFind(T, f, localNotes, E) ==
  IF ~E.sqlRead THEN [T |-> T, val |-> <<>>, threw |-> TRUE]
  ELSE IF ~firestore THEN [T |-> T, val |-> localNotes, threw |-> FALSE]
  ELSE IF ~E.rRead THEN [T |-> T, val |-> localNotes, threw |-> FALSE]
  ELSE LET remoteNotes == RemoteQuery(T.rem, f)
           filteredRemote == SelectSeq(remoteNotes, LAMBDA n : matchesFilters(n, f))
           m == MergeRemote(T, localNotes,
                            {localNotes[i].id : i \in DOMAIN localNotes},
                            filteredRemote, E)
       IN [T |-> m.T, val |-> SortByUpdatedAtDesc(m.merged), threw |-> FALSE]

----------------------------------------------------------------------------
(* routes/sync.js and routes/notes.js *)

(* A note as a client sends it: an absent field is Nil / NoId / NoTs *)
RawNotes ==
  [id : Ids \cup {NoId}, uid : {Nil, "u2"}, title : Titles,
   createdAt : {NoTs}, updatedAt : Times \cup {NoTs}, isDeleted : BOOLEAN]

(* Faulty variant: uid: body.uid ?? user.uid *)
normalizeTrustingClientUid(body, user, nanoid, t) ==
  [id |-> IF body.id = NoId THEN nanoid ELSE body.id,
   uid |-> IF ~NullishStr(body.uid) THEN body.uid ELSE user,
   title |-> IF NullishStr(body.title) THEN "" ELSE body.title,
   body |-> "",
   createdAt |-> IF NullishNum(body.createdAt) THEN t ELSE body.createdAt,
   updatedAt |-> IF NullishNum(body.updatedAt) THEN t ELSE body.updatedAt,
   date |-> NoTs,
   time |-> Nil,
   tags |-> <<>>,
   isDeleted |-> body.isDeleted]

(* normalizeNoteInput(body, user); nanoid() and Date.now() are passed in *)
normalizeNoteInput(body, user, nanoid, t) ==
  [id |-> IF body.id = NoId THEN nanoid ELSE body.id,
   uid |-> IF ~NullishStr(user) THEN user ELSE body.uid,
   title |-> IF NullishStr(body.title) THEN "" ELSE body.title,
   body |-> "",
   createdAt |-> IF NullishNum(body.createdAt) THEN t ELSE body.createdAt,
   updatedAt |-> IF NullishNum(body.updatedAt) THEN t ELSE body.updatedAt,
   date |-> NoTs,
   time |-> Nil,
   tags |-> <<>>,
   isDeleted |-> body.isDeleted]

(* Faulty variants of the push loop's iteration: without the owner branch,
   with >= in place of >, and without the timestamp branch *)
PushNoteAnyOwner(T, user, note, E) ==
  LET g == DualGet(T, note.id, E) IN
  IF g.threw
  THEN [T |-> g.T, status |-> "server_error", existing |-> <<>>]
  ELSE IF g.val = <<>>
  THEN LET u == DualUpsert(g.T, note, E) IN
       [T |-> u.T, status |-> IF u.threw THEN "server_error" ELSE "created",
        existing |-> g.val]
  ELSE IF note.updatedAt > g.val[1].updatedAt
  THEN LET u == DualUpsert(g.T, note, E) IN
       [T |-> u.T, status |-> IF u.threw THEN "server_error" ELSE "updated",
        existing |-> g.val]
  ELSE [T |-> g.T, status |-> "skipped_server_newer", existing |-> g.val]

PushNoteTieUpdates(T, user, note, E) ==
  LET g == DualGet(T, note.id, E) IN
  IF g.threw
  THEN [T |-> g.T, status |-> "server_error", existing |-> <<>>]
  ELSE IF g.val = <<>>
  THEN LET u == DualUpsert(g.T, note, E) IN
       [T |-> u.T, status |-> IF u.threw THEN "server_error" ELSE "created",
        existing |-> g.val]
  ELSE IF g.val[1].uid # user
  THEN [T |-> g.T, status |-> "forbidden_owner_mismatch", existing |-> g.val]
  ELSE IF note.updatedAt >= g.val[1].updatedAt
  THEN LET u == DualUpsert(g.T, note, E) IN
       [T |-> u.T, status |-> IF u.threw THEN "server_error" ELSE "updated",
        existing |-> g.val]
  ELSE [T |-> g.T, status |-> "skipped_server_newer", existing |-> g.val]

PushNoteLastArrivalWins(T, user, note, E) ==
  LET g == DualGet(T, note.id, E) IN
  IF g.threw
  THEN [T |-> g.T, status |-> "server_error", existing |-> <<>>]
  ELSE IF g.val = <<>>
  THEN LET u == DualUpsert(g.T, note, E) IN
       [T |-> u.T, status |-> IF u.threw THEN "server_error" ELSE "created",
        existing |-> g.val]
  ELSE IF g.val[1].uid # user
  THEN [T |-> g.T, status |-> "forbidden_owner_mismatch", existing |-> g.val]
  ELSE LET u == DualUpsert(g.T, note, E) IN
       [T |-> u.T, status |-> IF u.threw THEN "server_error" ELSE "updated",
        existing |-> g.val]

PushNoteKeepingFirst(T, user, note, E) ==
  LET g == DualGet(T, note.id, E) IN
  IF g.threw
  THEN [T |-> g.T, status |-> "server_error", existing |-> <<>>]
  ELSE IF g.val = <<>>
  THEN LET u == DualUpsert(g.T, note, E) IN
       [T |-> u.T, status |-> IF u.threw THEN "server_error" ELSE "created",
        existing |-> g.val]
  ELSE IF g.val[1].uid # user
  THEN [T |-> g.T, status |-> "forbidden_owner_mismatch", existing |-> g.val]
  ELSE [T |-> g.T, status |-> "skipped_server_newer", existing |-> g.val]

(* One iteration of the push loop on a normalized note: [T, status, existing] *)
PushNote(T, user, note, E) ==
  LET g == DualGet(T, note.id, E) IN
  IF g.threw
  THEN [T |-> g.T, status |-> "server_error", existing |-> <<>>]
  ELSE IF g.val = <<>>
  THEN LET u == DualUpsert(g.T, note, E) IN
       [T |-> u.T, status |-> IF u.threw THEN "server_error" ELSE "created",
        existing |-> g.val]
  ELSE IF g.val[1].uid # user
  THEN [T |-> g.T, status |-> "forbidden_owner_mismatch", existing |-> g.val]
  ELSE IF note.updatedAt > g.val[1].updatedAt
  THEN LET u == DualUpsert(g.T, note, E) IN
       [T |-> u.T, status |-> IF u.threw THEN "server_error" ELSE "updated",
        existing |-> g.val]
  ELSE [T |-> g.T, status |-> "skipped_server_newer", existing |-> g.val]

(* Faulty variant: a skipped note gets no entry *)
PushResultDroppingSkipped(results, note, status) ==
  IF status = "skipped_server_newer" THEN results
  ELSE Append(results, [id |-> note.id, status |-> status])

(* results.push({ id: note.id, status }) *)
PushResult(results, note, status) == Append(results, [id |-> note.id, status |-> status])

(* const lastSync = req.query.lastSync ? Number(req.query.lastSync) : 0 *)
LastSyncOf(q) == IF q = NoTs THEN 0 ELSE q

PullFilters(user, q) ==
  [updatedAfter |-> LastSyncOf(q), includeDeleted |-> TRUE, uid |-> user]

(* PUT /notes/:id: { ...existing, ...req.body, id, uid: req.user.uid, updatedAt: Date.now() } *)
PutBodies ==
  {[title |-> "A"], [title |-> "B"], [isDeleted |-> TRUE], [isDeleted |-> FALSE],
   [id |-> 2, uid |-> "u2", updatedAt |-> 0]}

(* A faulty variant: { id, uid, updatedAt, ...req.body } over existing *)
PutMergedBodyWins(existing, body, id, user, t) ==
  MergeDoc(MergeDoc(existing, [id |-> id, uid |-> user, updatedAt |-> t]), body)

PutMerged(existing, body, id, user, t) ==
  MergeDoc(MergeDoc(existing, body), [id |-> id, uid |-> user, updatedAt |-> t])

(* A faulty variant: the tombstone keeps the id and the owner only *)
DeleteBlanking(existing, t) ==
  [existing EXCEPT !.isDeleted = TRUE, !.updatedAt = t, !.title = ""]

(* DELETE /notes/:id: existing.isDeleted = true; existing.updatedAt = Date.now() *)
DeleteMerged(existing, t) == [existing EXCEPT !.isDeleted = TRUE, !.updatedAt = t]

----------------------------------------------------------------------------
(* State *)

(* n: notes in the body; left: notes still to process; sent: the ids of the
   normalized notes, in the order of the body; calls: the pushes that run
   concurrently, by caller (none where requests are served one at a time) *)
Idle == [active |-> FALSE, uid |-> Nil, n |-> 0, left |-> 0, sent |-> <<>>,
         results |-> <<>>, calls |-> NoRecords]

NoResp == [op |-> "none", uid |-> Nil, code |-> 0, arg |-> NoTs, body |-> <<>>]

Answer(op, user, code, arg, body) ==
  [op |-> op, uid |-> user, code |-> code, arg |-> arg, body |-> body]

UsedIds == (DOMAIN sqlite) \cup (DOMAIN files) \cup (DOMAIN remote)

(* What nanoid() may return for a note sent without id *)
NanoIds(raw) == IF raw.id = NoId THEN Ids \ UsedIds ELSE {NoId}

(* Documents Firestore may hold when the server starts with an empty data
   directory: none, or one written by another installation *)
InitDocs ==
  [id : Ids, uid : Users, title : {"B"}, body : {""}, createdAt : {1},
   updatedAt : {1}, date : {NoTs}, time : {Nil}, tags : {<<>>}, isDeleted : BOOLEAN]

Init ==
  /\ sqlite = NoRecords
  /\ files = NoRecords
  /\ firestore \in BOOLEAN
  /\ remote \in {NoRecords} \cup
                (IF firestore THEN {Put(NoRecords, d.id, d) : d \in InitDocs} ELSE {})
  /\ now = 1
  /\ req = Idle
  /\ resp = NoResp
  /\ faults = 0

SetTiers(T) ==
  /\ sqlite' = T.sql
  /\ files' = T.file
  /\ remote' = T.rem

Inject(E) ==
  /\ faults + Cost(E) <= MaxFaults
  /\ faults' = faults + Cost(E)

(* The server takes a request when none is being served and the last
   response has left *)
Ready == ~req.active /\ resp.op = "none"

(* The response has been written to the client *)
Sent ==
  /\ resp.op # "none"
  /\ resp' = NoResp
  /\ req' = Idle
  /\ UNCHANGED <<sqlite, files, remote, firestore, now, faults>>

(* POST /sync/push: the request arrives with n notes *)
PushBegin(user, n) ==
  /\ Ready
  /\ req' = [Idle EXCEPT !.active = TRUE, !.uid = user, !.n = n, !.left = n]
  /\ UNCHANGED <<sqlite, files, remote, firestore, now, resp, faults>>

(* one iteration of `for (const raw of notes)` *)
PushStep(raw, nanoid, E) ==
  /\ req.active /\ req.left > 0
  /\ Inject(E)
  /\ LET note == normalizeNoteInput(raw, req.uid, nanoid, now)
         r == PushNote(Tiers, req.uid, note, E)
     IN /\ SetTiers(r.T)
        /\ IF r.status = "server_error"
           THEN /\ req' = [req EXCEPT !.active = FALSE, !.sent = Append(@, note.id)]
                /\ resp' = Answer("push", req.uid, 500, NoTs, <<>>)
           ELSE /\ req' = [req EXCEPT !.left = @ - 1,
                                      !.sent = Append(@, note.id),
                                      !.results = PushResult(@, note, r.status)]
                /\ UNCHANGED resp
  /\ UNCHANGED <<firestore, now>>

(* res.json({ ok: true, results }) *)
PushEnd ==
  /\ req.active /\ req.left = 0
  /\ resp' = Answer("push", req.uid, 200, NoTs, req.results)
  /\ req' = [req EXCEPT !.active = FALSE]
  /\ UNCHANGED <<sqlite, files, remote, firestore, now, faults>>

(* GET /sync/pull?lastSync=q *)
Pull(user, q, localNotes, E) ==
  /\ Ready
  /\ Inject(E)
  /\ LET r == DualFind(Tiers, PullFilters(user, q), localNotes, E)
     IN /\ SetTiers(r.T)
        /\ resp' = IF r.threw THEN Answer("pull", user, 500, LastSyncOf(q), <<>>)
                   ELSE Answer("pull", user, 200, LastSyncOf(q), r.val)
  /\ UNCHANGED <<firestore, now, req>>

(* GET /notes/:id *)
GetNote(user, id, E) ==
  /\ Ready
  /\ Inject(E)
  /\ LET g == DualGet(Tiers, id, E)
     IN /\ SetTiers(g.T)
        /\ resp' = IF g.threw THEN Answer("get", user, 500, id, <<>>)
                   ELSE IF g.val = <<>> THEN Answer("get", user, 404, id, <<>>)
                   ELSE IF g.val[1].uid # user THEN Answer("get", user, 403, id, <<>>)
                   ELSE Answer("get", user, 200, id, g.val)
  /\ UNCHANGED <<firestore, now, req>>

(* POST /notes *)
PostNote(user, raw, nanoid, E) ==
  /\ Ready
  /\ Inject(E)
  /\ LET note == normalizeNoteInput(raw, user, nanoid, now)
         u == DualUpsert(Tiers, note, E)
     IN /\ SetTiers(u.T)
        /\ resp' = IF u.threw THEN Answer("post", user, 500, note.id, <<>>)
                   ELSE Answer("post", user, 201, note.id, <<note>>)
  /\ UNCHANGED <<firestore, now, req>>

(* PUT /notes/:id *)
PutNote(user, id, body, E) ==
  /\ Ready
  /\ Inject(E)
  /\ LET g == DualGet(Tiers, id, E)
     IN IF g.threw
        THEN SetTiers(g.T) /\ resp' = Answer("put", user, 500, id, <<>>)
        ELSE IF g.val = <<>>
        THEN SetTiers(g.T) /\ resp' = Answer("put", user, 404, id, <<>>)
        ELSE IF g.val[1].uid # user
        THEN SetTiers(g.T) /\ resp' = Answer("put", user, 403, id, <<>>)
        ELSE LET merged == PutMerged(g.val[1], body, id, user, now)
                 u == DualUpsert(g.T, merged, E)
             IN /\ SetTiers(u.T)
                /\ resp' = IF u.threw THEN Answer("put", user, 500, id, <<>>)
                           ELSE Answer("put", user, 200, id, <<merged>>)
  /\ UNCHANGED <<firestore, now, req>>

(* DELETE /notes/:id *)
DeleteNote(user, id, E) ==
  /\ Ready
  /\ Inject(E)
  /\ LET g == DualGet(Tiers, id, E)
     IN IF g.threw
        THEN SetTiers(g.T) /\ resp' = Answer("delete", user, 500, id, <<>>)
        ELSE IF g.val = <<>>
        THEN SetTiers(g.T) /\ resp' = Answer("delete", user, 404, id, <<>>)
        ELSE IF g.val[1].uid # user
        THEN SetTiers(g.T) /\ resp' = Answer("delete", user, 403, id, <<>>)
        ELSE LET u == DualUpsert(g.T, DeleteMerged(g.val[1], now), E)
             IN /\ SetTiers(u.T)
                /\ resp' = IF u.threw THEN Answer("delete", user, 500, id, <<>>)
                           ELSE Answer("delete", user, 200, id, <<>>)
  /\ UNCHANGED <<firestore, now, req>>

(* Every route; every I/O call succeeds *)
Next ==
  \/ Sent
  \/ \E u \in Users, n \in {0, 1} : PushBegin(u, n)
  \/ \E raw \in RawNotes : \E id \in NanoIds(raw) : PushStep(raw, id, AllOk)
  \/ PushEnd
  \/ \E u \in Users, q \in Times \cup {NoTs} :
       \E loc \in SqliteFind(sqlite, PullFilters(u, q)) : Pull(u, q, loc, AllOk)
  \/ \E u \in Users, id \in Ids : GetNote(u, id, AllOk)
  \/ \E u \in Users, raw \in RawNotes : \E id \in NanoIds(raw) : PostNote(u, raw, id, AllOk)
  \/ \E u \in Users, id \in Ids, b \in PutBodies : PutNote(u, id, b, AllOk)
  \/ \E u \in Users, id \in Ids : DeleteNote(u, id, AllOk)

Spec == Init /\ [][Next]_vars

(* POST /sync/push with longer bodies, on notes that differ in id and
   updatedAt only, starting with no Firestore document; a SQLite call may
   fail, which ends the request in server_error *)
BatchNotes == {raw \in RawNotes : raw.uid = Nil /\ raw.title = "A" /\ ~raw.isDeleted}

SqlFaultEnvs ==
  {E \in Envs : E.file /\ E.rRead /\ E.rWrite /\ faults + Cost(E) <= MaxFaults}

BatchInit == Init /\ remote = NoRecords

BatchNext ==
  \/ Sent
  \/ \E u \in Users, n \in 0..MaxBatch : PushBegin(u, n)
  \/ \E raw \in BatchNotes, E \in SqlFaultEnvs :
       \E id \in NanoIds(raw) : PushStep(raw, id, E)
  \/ PushEnd

BatchSpec == BatchInit /\ [][BatchNext]_vars

(* GET /notes?updatedAfter=q&includeDeleted=inc (the other query parameters
   absent) *)
ListFilters(user, inc, q) ==
  [updatedAfter |-> q, includeDeleted |-> inc, uid |-> user]

ListNotes(user, inc, q, localNotes, E) ==
  /\ Ready
  /\ Inject(E)
  /\ LET r == DualFind(Tiers, ListFilters(user, inc, q), localNotes, E)
     IN /\ SetTiers(r.T)
        /\ resp' = IF r.threw THEN Answer("list", user, 500, q, <<>>)
                   ELSE Answer("list", user, 200, q, r.val)
  /\ UNCHANGED <<firestore, now, req>>

(* The adapter under I/O faults: POST /notes (upsert) by one user, GET
   /notes/:id (get), GET /sync/pull and GET /notes (find) by any user, on
   notes that differ in id and updatedAt, with up to MaxFaults failing calls *)
StoreNotes ==
  {raw \in RawNotes : raw.id # NoId /\ raw.uid = Nil /\ raw.title = "A"
                      /\ raw.updatedAt # NoTs /\ ~raw.isDeleted}

(* The environments the fault budget still allows *)
StoreEnvs == {E \in Envs : faults + Cost(E) <= MaxFaults}

StoreNext ==
  \/ Sent
  \/ Ready /\ \E raw \in StoreNotes, E \in StoreEnvs : PostNote("u1", raw, NoId, E)
  \/ Ready /\ \E u \in Users, id \in Ids, E \in StoreEnvs : GetNote(u, id, E)
  \/ Ready /\ \E u \in Users, q \in Times \cup {NoTs} :
       \E loc \in SqliteFind(sqlite, PullFilters(u, q)) :
         \E E \in StoreEnvs : Pull(u, q, loc, E)
  \/ Ready /\ \E u \in Users, inc \in BOOLEAN, q \in Times \cup {NoTs} :
       \E loc \in SqliteFind(sqlite, ListFilters(u, inc, q)) :
         \E E \in StoreEnvs : ListNotes(u, inc, q, loc, E)

StoreSpec == Init /\ [][StoreNext]_vars

----------------------------------------------------------------------------
(* Concurrent requests.  Node runs a handler until its next await; the
   handlers of two requests interleave at their awaits.  Each caller has at
   most one call: a POST /sync/push with one note.
     pc       "get"     awaiting SqliteAdapter.get in adapter.get
              "rget"    awaiting the Firestore read in adapter.get
              "upsert"  awaiting Promise.all in adapter.upsert
              "rset"    awaiting the Firestore write in adapter.upsert
              "done"    the response has been sent
     sql      SqliteAdapter.upsert: "get" awaiting its SELECT, "insert" /
              "update" awaiting its INSERT / UPDATE, "done", "failed"
     file     FileAdapter.upsert: "pending" awaiting writeFile, "done" *)

AsyncNotes ==
  {raw \in RawNotes : raw.id = 1 /\ raw.uid = Nil /\ raw.title = "A"
                      /\ raw.updatedAt # NoTs /\ ~raw.isDeleted}

Calls == req.calls

SetCall(u, c) ==
  req' = [req EXCEPT !.calls = Put(@, u, c)]

(* if (!existing) ... else if (existing.uid !== req.user.uid) ... else if
   (note.updatedAt > existing.updatedAt) ... else ...: the call after the
   lookup returned existing *)
Classified(u, c, existing) ==
  IF existing = <<>> \/ (existing[1].uid = u /\ c.note.updatedAt > existing[1].updatedAt)
  THEN [c EXCEPT !.existing = existing, !.pc = "upsert", !.sql = "get", !.file = "pending"]
  ELSE [c EXCEPT !.existing = existing, !.pc = "done",
                 !.status = IF existing[1].uid # u THEN "forbidden_owner_mismatch"
                            ELSE "skipped_server_newer"]

(* results.push({ id, status }) after adapter.upsert(note) returned *)
Stored(c) ==
  [c EXCEPT !.pc = "done", !.status = IF c.existing = <<>> THEN "created" ELSE "updated"]

(* The request arrives and runs to `await adapter.get(note.id)` *)
PushArrives(u, raw) ==
  /\ ~Has(Calls, u)
  /\ SetCall(u, [note |-> normalizeNoteInput(raw, u, NoId, now), pc |-> "get",
                 existing |-> <<>>, status |-> "none", sql |-> "idle", file |-> "idle"])
  /\ UNCHANGED <<sqlite, files, remote, firestore, now, resp, faults>>

(* SqliteAdapter.get answers in adapter.get *)
AdapterGet(u) ==
  /\ Has(Calls, u) /\ Calls[u].pc = "get"
  /\ LET c == Calls[u]
         local == SqliteGet(sqlite, c.note.id)
     IN SetCall(u, IF local = <<>> /\ firestore THEN [c EXCEPT !.pc = "rget"]
                   ELSE Classified(u, c, local))
  /\ UNCHANGED <<sqlite, files, remote, firestore, now, resp, faults>>

(* Firestore answers the read of adapter.get; a document found is cached *)
FirestoreGet(u) ==
  /\ Has(Calls, u) /\ Calls[u].pc = "rget"
  /\ LET c == Calls[u]
         id == c.note.id
     IN IF Has(remote, id)
        THEN /\ SetTiers(CacheLocally(Tiers, remote[id], AllOk))
             /\ SetCall(u, Classified(u, c, <<remote[id]>>))
        ELSE /\ UNCHANGED <<sqlite, files, remote>>
             /\ SetCall(u, Classified(u, c, <<>>))
  /\ UNCHANGED <<firestore, now, resp, faults>>

(* SqliteAdapter.upsert: `const existing = await get(note.id)` answers *)
SqliteUpsertGet(u) ==
  /\ Has(Calls, u) /\ Calls[u].sql = "get"
  /\ SetCall(u, [Calls[u] EXCEPT
                   !.sql = IF SqliteGet(sqlite, Calls[u].note.id) # <<>>
                           THEN "update" ELSE "insert"])
  /\ UNCHANGED <<sqlite, files, remote, firestore, now, resp, faults>>

(* SqliteAdapter.upsert: db.run answers; an INSERT of an id that is there by
   now violates PRIMARY KEY and throws *)
SqliteUpsertRun(u) ==
  /\ Has(Calls, u) /\ Calls[u].sql \in {"insert", "update"}
  /\ LET c == Calls[u]
         id == c.note.id
     IN IF c.sql = "insert" /\ Has(sqlite, id)
        THEN /\ SetCall(u, [c EXCEPT !.sql = "failed"])
             /\ UNCHANGED sqlite
        ELSE /\ SetCall(u, [c EXCEPT !.sql = "done"])
             /\ sqlite' = Put(sqlite, id, SqlRow(c.note))
  /\ UNCHANGED <<files, remote, firestore, now, resp, faults>>

(* FileAdapter.upsert: fs.writeFile answers *)
FileWrite(u) ==
  /\ Has(Calls, u) /\ Calls[u].file = "pending"
  /\ files' = FileUpsert(files, Calls[u].note, TRUE)
  /\ SetCall(u, [Calls[u] EXCEPT !.file = "done"])
  /\ UNCHANGED <<sqlite, remote, firestore, now, resp, faults>>

(* Promise.all settles: rejected as soon as the SQLite upsert has thrown (the
   route answers 500), fulfilled when both writes are done *)
PromiseAll(u) ==
  /\ Has(Calls, u) /\ Calls[u].pc = "upsert"
  /\ LET c == Calls[u]
     IN \/ /\ c.sql = "failed"
           /\ SetCall(u, [c EXCEPT !.pc = "done", !.status = "server_error"])
        \/ /\ c.sql = "done" /\ c.file = "done"
           /\ SetCall(u, IF firestore THEN [c EXCEPT !.pc = "rset"] ELSE Stored(c))
  /\ UNCHANGED <<sqlite, files, remote, firestore, now, resp, faults>>

(* Firestore answers the write of adapter.upsert *)
FirestoreSet(u) ==
  /\ Has(Calls, u) /\ Calls[u].pc = "rset"
  /\ remote' = RemoteSet(remote, Calls[u].note)
  /\ SetCall(u, Stored(Calls[u]))
  /\ UNCHANGED <<sqlite, files, firestore, now, resp, faults>>

(* What the event loop and the local stores do for one caller, and what
   Firestore does *)
LocalStep(u) ==
  AdapterGet(u) \/ SqliteUpsertGet(u) \/ SqliteUpsertRun(u) \/ FileWrite(u) \/ PromiseAll(u)

RemoteStep(u) == FirestoreGet(u) \/ FirestoreSet(u)

AsyncInit == Init /\ remote = NoRecords

AsyncNext ==
  \/ \E u \in Users, raw \in AsyncNotes : PushArrives(u, raw)
  \/ \E u \in Users : AdapterGet(u)
  \/ \E u \in Users : FirestoreGet(u)
  \/ \E u \in Users : SqliteUpsertGet(u)
  \/ \E u \in Users : SqliteUpsertRun(u)
  \/ \E u \in Users : FileWrite(u)
  \/ \E u \in Users : PromiseAll(u)
  \/ \E u \in Users : FirestoreSet(u)

AsyncSpec == AsyncInit /\ [][AsyncNext]_vars

(* A local await is answered in the end; Firestore may never answer *)
AsyncLive == AsyncSpec /\ \A u \in Users : WF_vars(LocalStep(u))

----------------------------------------------------------------------------
(* Properties *)

(* The push loop is about to run an iteration *)
InLoop == req.active /\ req.left > 0

(* The current server record of an id: what adapter.get(id) returns *)
ServerRecord(T, id) == DualGet(T, id, AllOk).val

(* Every record of id that a tier of T1 holds, the same tier of T2 holds too *)
Kept(T1, T2, id) ==
  \A k \in {"sql", "file", "rem"} :
    Has(T1[k], id) => Has(T2[k], id) /\ T2[k][id] = T1[k][id]

LastOf(s) == s[Len(s)]

(* The push loop has run an iteration in this step *)
PushStepped == InLoop /\ Len(req'.sent) = Len(req.sent) + 1

(* The response to a push that ran to its end *)
PushAnswered == resp.op = "push" /\ resp.code = 200

(* The response to a pull that ran to its end *)
PullAnswered == resp.op = "pull" /\ resp.code = 200

(* The normalized notes a caller can push for one id *)
PushedNotes(id) ==
  {normalizeNoteInput(raw, req.uid, NoId, now) : raw \in {x \in RawNotes : x.id = id}}

(* The tiers after pushing a and then b, from the current state *)
AfterPushing(a, b) ==
  PushNote(PushNote(Tiers, req.uid, a, AllOk).T, req.uid, b, AllOk).T

(* C1: every iteration of the push loop on an id whose server record is owned
   by somebody other than the caller records forbidden_owner_mismatch for that
   id and leaves the record as it was: what get returns is the same before and
   after, no tier's record of the id changes, and when the Primary Store
   holds the record no tier changes at all. *)
C1_OwnershipImmutableUnderPush ==
  [][PushStepped =>
       LET id == LastOf(req'.sent)
           e == ServerRecord(Tiers, id)
       IN (e # <<>> /\ e[1].uid # req.uid) =>
            /\ Len(req'.results) = Len(req.results) + 1
            /\ LastOf(req'.results) = [id |-> id, status |-> "forbidden_owner_mismatch"]
            /\ ServerRecord(Tiers', id) = e
            /\ Kept(Tiers, Tiers', id)
            /\ Has(sqlite, id) => Tiers' = Tiers]_vars

(* A push of another user's record has been refused *)
C1_Witness ==
  /\ req.active /\ Len(req.results) = 1
  /\ req.results[1].status = "forbidden_owner_mismatch"
  /\ Has(sqlite, req.results[1].id)
  /\ sqlite[req.results[1].id].uid # req.uid
  /\ sqlite[req.results[1].id].uid # Nil

(* C2 (as claimed): no step changes the uid of a record the Primary Store
   holds, whatever route and whatever caller. *)
C2_OwnerNeverChanges ==
  [][\A id \in DOMAIN sqlite :
       Has(sqlite', id) /\ sqlite'[id].uid = sqlite[id].uid]_vars

(* C3: an iteration of the push loop on a note whose id has a server record
   owned by the caller with a smaller updatedAt gives status updated, and
   afterwards the Primary Store returns the normalized note for that id, the
   Mirror Store holds it, and so does the Remote Replica when it is there. *)
C3_NewerPushIsStored ==
  InLoop =>
    \A raw \in RawNotes :
      LET note == normalizeNoteInput(raw, req.uid, NoId, now)
          e == ServerRecord(Tiers, note.id)
          r == PushNote(Tiers, req.uid, note, AllOk)
      IN (e # <<>> /\ e[1].uid = req.uid /\ note.updatedAt > e[1].updatedAt) =>
           /\ r.status = "updated"
           /\ SqliteGet(r.T.sql, note.id) = <<note>>
           /\ ServerRecord(r.T, note.id) = <<note>>
           /\ Has(r.T.file, note.id) /\ r.T.file[note.id] = note
           /\ firestore => Has(r.T.rem, note.id) /\ r.T.rem[note.id] = note

(* A push has replaced the caller's record by a newer note *)
C3_Witness ==
  /\ req.active /\ Len(req.results) = 1
  /\ req.results[1].status = "updated"
  /\ Has(sqlite, req.results[1].id)
  /\ sqlite[req.results[1].id].uid = req.uid
  /\ sqlite[req.results[1].id].updatedAt > 0

(* C4: an iteration of the push loop on a note whose id has a server record
   owned by the caller with an updatedAt at least the note's gives status
   skipped_server_newer; get returns the same record afterwards, no tier's
   record of the id changes, and when the Primary Store holds the record no
   tier changes at all. *)
C4_OlderPushIsSkipped ==
  InLoop =>
    \A raw \in RawNotes :
      LET note == normalizeNoteInput(raw, req.uid, NoId, now)
          e == ServerRecord(Tiers, note.id)
          r == PushNote(Tiers, req.uid, note, AllOk)
      IN (e # <<>> /\ e[1].uid = req.uid /\ note.updatedAt <= e[1].updatedAt) =>
           /\ r.status = "skipped_server_newer"
           /\ ServerRecord(r.T, note.id) = e
           /\ Kept(Tiers, r.T, note.id)
           /\ Has(sqlite, note.id) => r.T = Tiers

(* A push of the caller's own record has been skipped *)
C4_Witness ==
  /\ req.active /\ Len(req.results) = 1
  /\ req.results[1].status = "skipped_server_newer"
  /\ Has(sqlite, req.results[1].id)
  /\ sqlite[req.results[1].id].uid = req.uid

(* C5: an iteration of the push loop on a note whose id has no server record
   (an id the client sent or one nanoid() made) gives status created, and
   afterwards the Primary Store returns for that id the normalized note, whose
   uid is the caller's, whatever uid the client sent. *)
C5_AbsentPushIsCreated ==
  InLoop =>
    \A raw \in RawNotes : \A nid \in NanoIds(raw) :
      LET note == normalizeNoteInput(raw, req.uid, nid, now)
          r == PushNote(Tiers, req.uid, note, AllOk)
      IN ServerRecord(Tiers, note.id) = <<>> =>
           /\ r.status = "created"
           /\ SqliteGet(r.T.sql, note.id) = <<note>>
           /\ r.T.sql[note.id].uid = req.uid
           /\ Has(r.T.file, note.id) /\ r.T.file[note.id].uid = req.uid
           /\ firestore => Has(r.T.rem, note.id) /\ r.T.rem[note.id].uid = req.uid

(* A push by u1 has created a record *)
C5_Witness ==
  /\ req.active /\ Len(req.results) = 1
  /\ req.results[1].status = "created"
  /\ req.uid = "u1"
  /\ Has(sqlite, req.results[1].id)
  /\ sqlite[req.results[1].id].uid = "u1"

(* C6 (as claimed): two notes of one id pushed by one caller from one state
   leave the same record whichever is pushed first. *)
C6_EitherOrderSameRecord ==
  InLoop =>
    \A id \in Ids : \A a, b \in PushedNotes(id) :
      ServerRecord(AfterPushing(a, b), id) = ServerRecord(AfterPushing(b, a), id)

(* C6 (amended): two notes of one id with different updatedAt, pushed by one
   caller from one state, leave the same tiers whichever is pushed first; the
   record of the id is then the server record from before when that belongs
   to somebody else or is at least as new as both notes, and the note with the
   larger updatedAt otherwise.  (a is the older note and b the newer one.) *)
C6_LastWriteWins ==
  InLoop =>
    \A id \in Ids : \A a, b \in PushedNotes(id) :
      a.updatedAt < b.updatedAt =>
        LET e == ServerRecord(Tiers, id)
            ab == AfterPushing(a, b)
            expected == IF e = <<>> THEN <<b>>
                        ELSE IF e[1].uid # req.uid THEN e
                        ELSE IF b.updatedAt > e[1].updatedAt THEN <<b>>
                        ELSE e
        IN /\ ab = AfterPushing(b, a)
           /\ ServerRecord(ab, id) = expected

(* The caller's record has just been replaced by a newer note, and an older
   note of the same id with other contents would now be skipped: the two
   notes in the order older, newer and in the order newer, older *)
C6_Witness ==
  /\ req.active /\ Len(req.results) = 1
  /\ req.results[1].status = "updated"
  /\ Has(sqlite, req.results[1].id)
  /\ \E a \in PushedNotes(req.results[1].id) :
       /\ a.updatedAt < sqlite[a.id].updatedAt
       /\ a.title # sqlite[a.id].title
       /\ PushNote(Tiers, req.uid, a, AllOk).status = "skipped_server_newer"

(* C7 (as claimed): no step lowers the updatedAt of a record the Primary
   Store holds. *)
C7_UpdatedAtNeverDecreases ==
  [][\A id \in DOMAIN sqlite :
       Has(sqlite', id) /\ sqlite'[id].updatedAt >= sqlite[id].updatedAt]_vars

(* C8 (as claimed): a pull's response holds a tombstone of the caller exactly
   when lastSync is below the tombstone's updatedAt. *)
C8_TombstonePulledIffNewer ==
  PullAnswered =>
    \A id \in DOMAIN sqlite :
      (sqlite[id].uid = resp.uid /\ sqlite[id].isDeleted = 1) =>
        ((resp.arg < sqlite[id].updatedAt)
           <=> (\E i \in DOMAIN resp.body : resp.body[i].id = id))

(* C9: every note in a pull's response has the caller's uid. *)
C9_PullReturnsOwnNotesOnly ==
  PullAnswered => \A i \in DOMAIN resp.body : resp.body[i].uid = resp.uid

(* A pull has returned notes while the Primary Store and the Remote Replica
   each hold a note of somebody else *)
C9_Witness ==
  /\ PullAnswered
  /\ resp.body # <<>>
  /\ \E id \in DOMAIN sqlite : sqlite[id].uid # resp.uid
  /\ \E id \in DOMAIN remote : remote[id].uid # resp.uid

(* C10: the results of a push that ran to its end are as many as the notes
   of the body, and the i-th result carries the id of the i-th normalized
   note. *)
C10_OneResultPerNoteInOrder ==
  PushAnswered =>
    /\ Len(resp.body) = req.n
    /\ Len(req.sent) = req.n
    /\ \A i \in 1..req.n : resp.body[i].id = req.sent[i]

(* A push of two notes of different ids has been answered, one of them
   skipped *)
C10_Witness ==
  /\ PushAnswered
  /\ req.n = 2
  /\ Len(resp.body) = 2
  /\ resp.body[1].id # resp.body[2].id
  /\ \E i \in 1..2 : resp.body[i].status = "skipped_server_newer"

(* C11 (as claimed): a push that has been answered has processed every note
   of its body, whether or not a store call failed on the way. *)
C11_EveryNoteIsProcessed ==
  resp.op = "push" => Len(req.sent) = req.n

(* A find (GET /sync/pull or GET /notes) runs in this step *)
FindStepped == Ready /\ resp'.op \in {"pull", "list"}

(* The response to a find that ran to its end *)
FindAnswered == resp.op \in {"pull", "list"} /\ resp.code = 200

(* C12 (as claimed): a find leaves every row of the Primary Store as it
   was. *)
C12_FindKeepsLocalRecords ==
  [][FindStepped =>
       \A id \in DOMAIN sqlite : Has(sqlite', id) /\ sqlite'[id] = sqlite[id]]_vars

(* C13 (as claimed): the notes a find returns have distinct ids, and a
   returned note whose id the Primary Store held before the call is the
   Primary Store's copy. *)
C13_FindReturnsLocalCopy ==
  [][(FindStepped /\ resp'.code = 200) =>
       /\ \A i, j \in DOMAIN resp'.body :
            i # j => resp'.body[i].id # resp'.body[j].id
       /\ \A i \in DOMAIN resp'.body :
            Has(sqlite, resp'.body[i].id) =>
              resp'.body[i] = RowToNote(sqlite[resp'.body[i].id])]_vars

(* C14 (as claimed): the notes a find returns are in descending order of
   updatedAt, and notes of equal updatedAt in ascending order of id. *)
C14_FindSortedTiesById ==
  FindAnswered =>
    \A i, j \in DOMAIN resp.body :
      i < j =>
        \/ resp.body[i].updatedAt > resp.body[j].updatedAt
        \/ /\ resp.body[i].updatedAt = resp.body[j].updatedAt
           /\ resp.body[i].id < resp.body[j].id

(* C15 (as claimed): when POST /notes answers 201, the upsert having reported
   success, the Primary Store and the Mirror Store both hold the note. *)
C15_SuccessMeansBothLocalWrites ==
  (resp.op = "post" /\ resp.code = 201) =>
    /\ SqliteGet(sqlite, resp.arg) = resp.body
    /\ Has(files, resp.arg) /\ <<files[resp.arg]>> = resp.body

(* The bodies of POST /notes that give different notes: with an id, with
   every title, updatedAt and isDeleted (uid is not read from the body) *)
UpsertInputs ==
  {x \in RawNotes : x.id # NoId /\ x.uid = Nil /\ x.updatedAt # NoTs}

(* C16: when only the Firestore write fails, upsert(note) does not throw,
   SQLite and the file hold the note afterwards, and Firestore is as it
   was. *)
C16_RemoteWriteFailureSwallowed ==
  Ready =>
    \A u \in Users, raw \in UpsertInputs :
      LET note == normalizeNoteInput(raw, u, NoId, now)
          r == DualUpsert(Tiers, note, [AllOk EXCEPT !.rWrite = FALSE])
      IN /\ ~r.threw
         /\ SqliteGet(r.T.sql, note.id) = <<note>>
         /\ Has(r.T.file, note.id) /\ r.T.file[note.id] = note
         /\ r.T.rem = remote

(* POST /notes has answered 201 with the note in SQLite and in the file while
   Firestore, though available, does not hold it *)
C16_Witness ==
  /\ resp.op = "post" /\ resp.code = 201
  /\ firestore
  /\ SqliteGet(sqlite, resp.arg) = resp.body
  /\ Has(files, resp.arg) /\ <<files[resp.arg]>> = resp.body
  /\ ~(Has(remote, resp.arg) /\ <<remote[resp.arg]>> = resp.body)

(* C17: get(id), when the SQLite read works: with a row in SQLite it returns
   that row and changes nothing; else with Firestore readable and holding
   the id it returns the document, Firestore stays as it was, and SQLite and
   the file hold the document afterwards unless a caching write failed; else
   it returns nothing and changes nothing. *)
C17_GetWithFallback ==
  Ready =>
    \A id \in Ids, E \in {e \in Envs : e.sqlRead} :
      LET g == DualGet(Tiers, id, E) IN
      /\ ~g.threw
      /\ IF Has(sqlite, id)
         THEN g.val = <<RowToNote(sqlite[id])>> /\ g.T = Tiers
         ELSE IF firestore /\ E.rRead /\ Has(remote, id)
         THEN /\ g.val = <<remote[id]>>
              /\ g.T.rem = remote
              /\ E.sqlWrite =>
                   SqliteGet(g.T.sql, id) = <<remote[id]>>
              /\ (E.sqlWrite /\ E.file) =>
                   Has(g.T.file, id) /\ g.T.file[id] = remote[id]
         ELSE g.val = <<>> /\ g.T = Tiers

(* GET /notes/:id has returned a document that came from Firestore, and
   SQLite and the file now hold it *)
C17_Witness ==
  /\ resp.op = "get" /\ resp.code = 200
  /\ firestore /\ Has(remote, resp.arg)
  /\ resp.body = <<remote[resp.arg]>>
  /\ resp.body[1].title = "B"
  /\ SqliteGet(sqlite, resp.arg) = resp.body
  /\ Has(files, resp.arg) /\ <<files[resp.arg]>> = resp.body

(* C18: while SQLite holds a row for an id, get(id) returns that row whatever
   Firestore holds and whichever other call fails; and once get(id) has
   adopted a Firestore document for an id SQLite did not hold, get(id)
   returns that same document whatever Firestore holds for the id later. *)
C18_PrimaryIsAuthoritative ==
  Ready =>
    \A id \in Ids :
      /\ Has(sqlite, id) =>
           \A E \in {e \in Envs : e.sqlRead} :
             DualGet(Tiers, id, E).val = <<RowToNote(sqlite[id])>>
      /\ LET g == DualGet(Tiers, id, AllOk) IN
         (~Has(sqlite, id) /\ g.val # <<>>) =>
           /\ g.val = <<remote[id]>>
           /\ \A d \in {x \in InitDocs : x.id = id} :
                DualGet([g.T EXCEPT !.rem = Put(@, id, d)], id, AllOk).val = g.val

(* GET /notes/:id has returned the SQLite row of an id for which Firestore
   holds a different document *)
C18_Witness ==
  /\ resp.op = "get" /\ resp.code = 200
  /\ firestore /\ Has(remote, resp.arg)
  /\ resp.body # <<remote[resp.arg]>>
  /\ SqliteGet(sqlite, resp.arg) = resp.body

(* C19: from every state of the three tiers and for every note, upsert(note)
   applied twice leaves the tiers as upsert(note) applied once does. *)
C19_UpsertIdempotent ==
  Ready =>
    \A u \in Users, raw \in UpsertInputs :
      LET note == normalizeNoteInput(raw, u, NoId, now)
          once == DualUpsert(Tiers, note, AllOk).T
      IN DualUpsert(once, note, AllOk).T = once

(* POST /notes has stored a note in the three tiers, and an upsert of the
   same note would change none of them *)
C19_Witness ==
  /\ resp.op = "post" /\ resp.code = 201
  /\ firestore /\ faults = 0
  /\ Has(remote, resp.arg) /\ <<remote[resp.arg]>> = resp.body
  /\ DualUpsert(Tiers, resp.body[1], AllOk).T = Tiers

(* C20 (as claimed): a note pushed a second time, right after the first and
   by the same caller, changes no tier; a note sent without id gets an id
   from nanoid() each time. *)
C20_RetriedPushChangesNothing ==
  InLoop =>
    \A raw \in RawNotes : \A nid \in NanoIds(raw) :
      LET first == normalizeNoteInput(raw, req.uid, nid, now)
          once == PushNote(Tiers, req.uid, first, AllOk).T
      IN \A again \in (IF raw.id = NoId THEN Ids \ (UsedIds \cup {nid}) ELSE {NoId}) :
           PushNote(once, req.uid, normalizeNoteInput(raw, req.uid, again, now), AllOk).T
             = once

----------------------------------------------------------------------------
(* Concurrent pushes *)

(* Both callers' pushes have been answered and no write is still under way *)
Quiescent ==
  \A u \in Users : Has(Calls, u) /\ Calls[u].pc = "done" /\ Calls[u].file # "pending"

(* The two pushes served one after the other on the empty server, first's
   before second's: the two statuses and the tiers they leave *)
OneAfterTheOther(first, second) ==
  LET r1 == PushNote([sql |-> NoRecords, file |-> NoRecords, rem |-> NoRecords],
                     first, Calls[first].note, AllOk)
      r2 == PushNote(r1.T, second, Calls[second].note, AllOk)
  IN [status |-> (first :> r1.status) @@ (second :> r2.status), T |-> r2.T]

(* C21 (as claimed): when two callers' pushes of one id have both been
   answered, whatever the interleaving of their steps, the two statuses and
   the record SQLite holds are those of serving one of the pushes wholly
   before the other. *)
C21_ConcurrentPushesSerialized ==
  Quiescent =>
    \E first \in Users : \E second \in Users \ {first} :
      LET seq == OneAfterTheOther(first, second)
      IN /\ \A u \in Users : Calls[u].status = seq.status[u]
         /\ sqlite = seq.T.sql

(* C26 (as claimed): a push that has arrived is answered in the end, given
   only that the event loop and the local stores take their steps: Firestore
   need not answer. *)
C26_AnsweredWithoutRemote ==
  \A u \in Users :
    Has(Calls, u) ~> (Has(Calls, u) /\ Calls[u].pc = "done")

(* C30 (as claimed): once every request has been answered, no write is under
   way and none has failed, the file of each id SQLite holds carries the
   field values of the SQLite row. *)
C30_MirrorIsWriteThroughCopy ==
  (Quiescent /\ \A u \in Users : Calls[u].status # "server_error" /\ Calls[u].sql # "failed") =>
    \A id \in DOMAIN sqlite : Has(files, id) /\ files[id] = RowToNote(sqlite[id])

----------------------------------------------------------------------------
(* Fields of a stored record *)

(* C22 (as claimed): a push of an id that has a server record leaves the
   createdAt of that record as it was, whatever createdAt the pushed note
   carries. *)
C22_CreatedAtNeverChanges ==
  InLoop =>
    \A raw \in RawNotes, c \in Times :
      (raw.id # NoId /\ ServerRecord(Tiers, raw.id) # <<>>) =>
        LET note == normalizeNoteInput([raw EXCEPT !.createdAt = c], req.uid, NoId, now)
            after == PushNote(Tiers, req.uid, note, AllOk).T
        IN ServerRecord(after, raw.id)[1].createdAt
             = ServerRecord(Tiers, raw.id)[1].createdAt

(* DELETE /notes/:id has been served in this step *)
DeleteStepped == Ready /\ resp'.op = "delete"

(* C23: no step of any route takes an id out of SQLite, of the files or of
   Firestore; and a DELETE /notes/:id answered 200 leaves a record that get
   returns, with isDeleted true, updatedAt the time of the request and every
   other field as get returned it before. *)
C23_DeletionIsSoft ==
  [][/\ DOMAIN sqlite \subseteq DOMAIN sqlite'
     /\ DOMAIN files \subseteq DOMAIN files'
     /\ DOMAIN remote \subseteq DOMAIN remote'
     /\ (DeleteStepped /\ resp'.code = 200) =>
          LET e == ServerRecord(Tiers, resp'.arg)
          IN /\ e # <<>> /\ e[1].uid = resp'.uid
             /\ ServerRecord(Tiers', resp'.arg)
                  = <<[e[1] EXCEPT !.isDeleted = TRUE, !.updatedAt = now]>>]_vars

(* The owner's DELETE has been answered 200 and SQLite holds the tombstone *)
C23_Witness ==
  /\ resp.op = "delete" /\ resp.code = 200
  /\ Has(sqlite, resp.arg)
  /\ sqlite[resp.arg].uid = resp.uid
  /\ sqlite[resp.arg].isDeleted = 1
  /\ sqlite[resp.arg].title # ""

----------------------------------------------------------------------------
(* Order within a batch *)

(* The push loop runs, in this step, an iteration on the id of the note
   before it in the body, which it stored *)
SameIdAgain ==
  /\ PushStepped
  /\ Len(req.sent) >= 1 /\ Len(req.results) = Len(req.sent)
  /\ LastOf(req'.sent) = LastOf(req.sent)
  /\ LastOf(req.results).status \in {"created", "updated"}

(* C25: when a note of a batch has the id of the note before it, which was
   stored, it is classified against the record that note left: SQLite holds
   that record, owned by the caller; the note is updated when its updatedAt
   is greater than that record's and skipped_server_newer otherwise, never
   created. *)
C25_BatchInSubmissionOrder ==
  [][SameIdAgain =>
       LET id == LastOf(req.sent) IN
       /\ Has(sqlite, id) /\ sqlite[id].uid = req.uid
       /\ \A raw \in BatchNotes :
            (raw.id = id /\ PushStep(raw, NoId, AllOk)) =>
              /\ Len(req'.results) = Len(req.results) + 1
              /\ LastOf(req'.results) =
                   [id |-> id,
                    status |-> IF normalizeNoteInput(raw, req.uid, NoId, now).updatedAt
                                    > sqlite[id].updatedAt
                               THEN "updated" ELSE "skipped_server_newer"]]_vars

(* A batch of two notes of one id: the first created, the second, newer,
   updated *)
C25_Witness ==
  /\ req.active /\ Len(req.results) = 2 /\ Len(req.sent) = 2
  /\ req.sent[1] = req.sent[2]
  /\ req.results[1].status = "created"
  /\ req.results[2].status = "updated"
  /\ Has(sqlite, req.sent[2])

----------------------------------------------------------------------------
(* PUT and DELETE *)

(* PUT /notes/:id or DELETE /notes/:id has been served in this step *)
PutOrDeleteStepped == Ready /\ resp'.op \in {"put", "delete"}

(* C29: PUT /notes/:id and DELETE /notes/:id of an id without server record
   answer 404 and change no tier; of an id whose server record is owned by
   somebody else they answer 403 and leave that record as it was; of the
   caller's own record they answer 200, the record SQLite then holds under
   the id has that id and the owner it had, whatever the body says, and the
   records of the other ids are as they were. *)
C29_PutDeleteCheckBeforeWriting ==
  [][PutOrDeleteStepped =>
       LET id == resp'.arg
           e == ServerRecord(Tiers, id)
       IN /\ e = <<>> => (resp'.code = 404 /\ Tiers' = Tiers)
          /\ (e # <<>> /\ e[1].uid # resp'.uid) =>
               /\ resp'.code = 403
               /\ ServerRecord(Tiers', id) = e
               /\ Kept(Tiers, Tiers', id)
          /\ (e # <<>> /\ e[1].uid = resp'.uid) =>
               /\ resp'.code = 200
               /\ Has(sqlite', id)
               /\ sqlite'[id].id = id /\ sqlite'[id].uid = e[1].uid
          /\ \A x \in Ids \ {id} : Kept(Tiers, Tiers', x) /\ Kept(Tiers', Tiers, x)]_vars

(* The owner's PUT has been answered 200 and SQLite holds the merged record *)
C29_Witness ==
  /\ resp.op = "put" /\ resp.code = 200
  /\ Has(sqlite, resp.arg)
  /\ sqlite[resp.arg].id = resp.arg
  /\ sqlite[resp.arg].uid = resp.uid
  /\ <<RowToNote(sqlite[resp.arg])>> = resp.body

----------------------------------------------------------------------------
(* The scenario: notes A, B, C, D of one id; updatedAt 0, 1, 2 stand for 50,
   100, 200 *)

ScenarioNote(title, updatedAt) ==
  [id |-> 1, uid |-> Nil, title |-> title, createdAt |-> NoTs,
   updatedAt |-> updatedAt, isDeleted |-> FALSE]

NoteA == ScenarioNote("A", 1)
NoteB == ScenarioNote("B", 0)
NoteC == ScenarioNote("C", 2)
NoteD == ScenarioNote("D", 2)

ScenarioInit == Init /\ remote = NoRecords

ScenarioNext ==
  \/ Sent
  \/ \E u \in Users : PushBegin(u, 1)
  \/ \E raw \in {NoteA, NoteB, NoteC, NoteD} : PushStep(raw, NoId, AllOk)
  \/ PushEnd
  \/ Ready /\ \E u \in Users, q \in Times \cup {NoTs} :
       \E loc \in SqliteFind(sqlite, PullFilters(u, q)) : Pull(u, q, loc, AllOk)

ScenarioSpec == ScenarioInit /\ [][ScenarioNext]_vars

(* The record that u1's push of raw stores *)
StoredBy(raw) == <<normalizeNoteInput(raw, "u1", NoId, now)>>

(* The push loop, serving user, runs its iteration on raw in this step while
   get(1) returns existing; it records status and get(1) then returns after *)
Pushing(user, raw, existing, status, after) ==
  (req.uid = user /\ ServerRecord(Tiers, 1) = existing /\ PushStep(raw, NoId, AllOk)) =>
    /\ LastOf(req'.results) = [id |-> 1, status |-> status]
    /\ ServerRecord(Tiers', 1) = after

(* C24: on the empty server u1's push of A is created and stores A; on the
   server that holds A, u1's push of the older B is skipped_server_newer and
   u2's push of C is forbidden_owner_mismatch, both leaving A, and u1's push
   of the newer D is updated and stores D; on the server that holds D, u1's
   pull with lastSync = 0 returns exactly D. *)
C24_Scenario ==
  [][/\ Pushing("u1", NoteA, <<>>, "created", StoredBy(NoteA))
     /\ Pushing("u1", NoteB, StoredBy(NoteA), "skipped_server_newer", StoredBy(NoteA))
     /\ Pushing("u2", NoteC, StoredBy(NoteA), "forbidden_owner_mismatch", StoredBy(NoteA))
     /\ Pushing("u1", NoteD, StoredBy(NoteA), "updated", StoredBy(NoteD))
     /\ (/\ ServerRecord(Tiers, 1) = StoredBy(NoteD)
         /\ Ready /\ resp'.op = "pull" /\ resp'.uid = "u1" /\ resp'.arg = 0) =>
          (resp'.code = 200 /\ resp'.body = StoredBy(NoteD))]_vars

(* u1's pull with lastSync = 0 has returned D, the record the server holds *)
C24_Witness ==
  /\ resp.op = "pull" /\ resp.uid = "u1" /\ resp.arg = 0 /\ resp.code = 200
  /\ resp.body = StoredBy(NoteD)
  /\ ServerRecord(Tiers, 1) = StoredBy(NoteD)

----------------------------------------------------------------------------
(* Reads while the Firestore read may fail: POST /notes by one user stores
   notes and tombstones; GET /notes/:id, GET /sync/pull and GET /notes by
   any user read them *)

ReadNotes ==
  {raw \in RawNotes : raw.id # NoId /\ raw.uid = Nil /\ raw.title = "A"
                      /\ raw.updatedAt # NoTs}

(* firestore...get() throws *)
RemoteReadFails == [AllOk EXCEPT !.rRead = FALSE]

ReadEnvs == {E \in {AllOk, RemoteReadFails} : faults + Cost(E) <= MaxFaults}

ReadNext ==
  \/ Sent
  \/ Ready /\ \E raw \in ReadNotes : PostNote("u1", raw, NoId, AllOk)
  \/ Ready /\ \E u \in Users, id \in Ids, E \in ReadEnvs : GetNote(u, id, E)
  \/ Ready /\ \E u \in Users, q \in Times \cup {NoTs} :
       \E loc \in SqliteFind(sqlite, PullFilters(u, q)) :
         \E E \in ReadEnvs : Pull(u, q, loc, E)
  \/ Ready /\ \E u \in Users, inc \in BOOLEAN, q \in Times \cup {NoTs} :
       \E loc \in SqliteFind(sqlite, ListFilters(u, inc, q)) :
         \E E \in ReadEnvs : ListNotes(u, inc, q, loc, E)

ReadSpec == Init /\ [][ReadNext]_vars

(* C27: when the Firestore read fails, find(filters) returns the rows SQLite
   returned for the filters, in their order, throws nothing and changes no
   tier; and get(id) of an id SQLite does not hold returns null, throws
   nothing and changes no tier. *)
C27_RemoteReadFailureIsLocalOnly ==
  Ready =>
    /\ \A u \in Users, inc \in BOOLEAN, q \in Times \cup {NoTs} :
         \A loc \in SqliteFind(sqlite, ListFilters(u, inc, q)) :
           DualFind(Tiers, ListFilters(u, inc, q), loc, RemoteReadFails)
             = [T |-> Tiers, val |-> loc, threw |-> FALSE]
    /\ \A id \in Ids \ DOMAIN sqlite :
         DualGet(Tiers, id, RemoteReadFails) = [T |-> Tiers, val |-> <<>>, threw |-> FALSE]

(* A find has been answered with local rows only: Firestore holds a document
   of the caller that passes the filters, and SQLite has not got it *)
C27_Witness ==
  /\ FindAnswered /\ firestore /\ faults > 0
  /\ Len(resp.body) > 0
  /\ \E id \in DOMAIN remote :
       /\ remote[id].uid = resp.uid /\ ~remote[id].isDeleted
       /\ remote[id].updatedAt > resp.arg
       /\ ~Has(sqlite, id)

(* C28: find with includeDeleted false returns no tombstone, whether the
   Firestore read succeeds or fails, among the rows of SQLite or among the
   Firestore documents merged in. *)
C28_NoTombstoneUnlessAsked ==
  Ready =>
    \A u \in Users, q \in Times \cup {NoTs}, E \in {AllOk, RemoteReadFails} :
      \A loc \in SqliteFind(sqlite, ListFilters(u, FALSE, q)) :
        LET r == DualFind(Tiers, ListFilters(u, FALSE, q), loc, E)
        IN \A i \in DOMAIN r.val : ~r.val[i].isDeleted

(* GET /notes has returned the caller's notes while SQLite and Firestore
   each hold a tombstone of the caller that the answer leaves out *)
C28_Witness ==
  /\ resp.op = "list" /\ resp.code = 200
  /\ Len(resp.body) > 0
  /\ \A i \in DOMAIN resp.body : ~resp.body[i].isDeleted
  /\ \E id \in DOMAIN sqlite : sqlite[id].uid = resp.uid /\ sqlite[id].isDeleted = 1
  /\ \E id \in DOMAIN remote : remote[id].uid = resp.uid /\ remote[id].isDeleted

----------------------------------------------------------------------------
(* Failures on the way of a push *)

(* C31 (as claimed): an iteration of the push loop whose Firestore read
   fails leaves every Firestore document owned by somebody other than the
   caller as it was. *)
C31_RemoteRecordOfOtherOwnerKept ==
  InLoop =>
    \A raw \in RawNotes : \A nid \in NanoIds(raw) :
      LET note == normalizeNoteInput(raw, req.uid, nid, now)
          after == PushNote(Tiers, req.uid, note, RemoteReadFails).T
      IN \A id \in DOMAIN remote :
           remote[id].uid # req.uid => (Has(after.rem, id) /\ after.rem[id] = remote[id])

(* C33 (as claimed): when a push has been answered server_error, no note
   that the request created is held by SQLite. *)
C33_FailedPushHasNoEffect ==
  (resp.op = "push" /\ resp.code = 500) =>
    \A i \in DOMAIN req.results :
      req.results[i].status = "created" => ~Has(sqlite, req.results[i].id)

----------------------------------------------------------------------------
(* The filters q and dateTo.  A text is a sequence of characters; the empty
   text and NoTs stand for an absent filter. *)

MaxLen == 2

Chars == {"a", "A", "_"}

Texts == UNION {[1..n -> Chars] : n \in 0..MaxLen}

(* LOWER(x), x.toLowerCase() *)
Lower(s) == [i \in DOMAIN s |-> IF s[i] = "A" THEN "a" ELSE s[i]]

(* SQLite's text LIKE pattern: % matches any run of characters, _ any one
   character, another character itself *)
RECURSIVE Like(_, _)
Like(s, p) ==
  IF p = <<>> THEN s = <<>>
  ELSE IF Head(p) = "%" THEN Like(s, Tail(p)) \/ (s # <<>> /\ Like(Tail(s), p))
  ELSE IF Head(p) = "_" THEN s # <<>> /\ Like(Tail(s), Tail(p))
  ELSE s # <<>> /\ Lower(<<Head(s)>>) = Lower(<<Head(p)>>) /\ Like(Tail(s), Tail(p))

(* s.includes(q) *)
Includes(s, q) ==
  \E i \in 1..(Len(s) + 1) : i + Len(q) - 1 <= Len(s) /\ SubSeq(s, i, i + Len(q) - 1) = q

(* find of the SQLite adapter: the whole WHERE clause.  A comparison with a
   NULL date selects nothing. *)
SqlWhere(row, f) ==
  /\ SqlMatch(row, f)
  /\ f.q # <<>> =>
       LET pattern == <<"%">> \o Lower(f.q) \o <<"%">>
       IN Like(Lower(row.title), pattern) \/ Like(Lower(row.body), pattern)
  /\ TruthyNum(f.dateTo) => (row.date # NoTs /\ row.date <= f.dateTo)

(* matchesFilters(note, filters) with q and dateTo *)
matchesAllFilters(note, f) ==
  /\ matchesFilters(note, f)
  /\ ~(f.q # <<>> /\ ~(Includes(Lower(note.title), Lower(f.q))
                       \/ Includes(Lower(note.body), Lower(f.q))))
  /\ ~(TruthyNum(f.dateTo) /\ ~(TruthyNum(note.date) /\ note.date <= f.dateTo))

(* The notes POST /notes can have stored, and the filters GET /notes builds *)
FilterNotes ==
  [id : {1}, uid : {"u1"}, title : Texts, body : {<<>>}, createdAt : {1},
   updatedAt : {1}, date : {NoTs, 0, 1}, time : {Nil}, tags : {<<>>},
   isDeleted : {FALSE}]

FilterInputs ==
  [updatedAfter : {NoTs}, includeDeleted : {FALSE}, uid : {"u1"},
   q : Texts, dateTo : {NoTs, 1}]

FilterInit ==
  /\ \E n \in FilterNotes :
       /\ sqlite = Put(NoRecords, n.id, SqlRow(n))
       /\ files = Put(NoRecords, n.id, n)
       /\ remote = Put(NoRecords, n.id, n)
  /\ firestore = TRUE
  /\ now = 1
  /\ req = Idle
  /\ resp = NoResp
  /\ faults = 0

(* SqliteAdapter.find(filters): the rows selected *)
SqliteSelect(f) ==
  /\ Ready
  /\ resp' = Answer("select", f.uid, 200, NoTs,
                    IF SqlWhere(sqlite[1], f) THEN <<RowToNote(sqlite[1])>> ELSE <<>>)
  /\ UNCHANGED <<sqlite, files, remote, firestore, now, req, faults>>

(* remoteNotes.filter(n => matchesFilters(n, filters)) *)
RemoteFilter(f) ==
  /\ Ready
  /\ resp' = Answer("filter", f.uid, 200, NoTs,
                    SelectSeq(RemoteQuery(remote, f), LAMBDA n : matchesAllFilters(n, f)))
  /\ UNCHANGED <<sqlite, files, remote, firestore, now, req, faults>>

FilterNext ==
  \/ Sent
  \/ \E f \in FilterInputs : SqliteSelect(f)
  \/ \E f \in FilterInputs : RemoteFilter(f)

FilterSpec == FilterInit /\ [][FilterNext]_vars

(* C34 (as claimed): for every stored note and every filter, the WHERE
   clause of SQLite's find selects the row of the note exactly when
   matchesFilters accepts the note. *)
C34_FiltersAgree ==
  Ready =>
    \A id \in DOMAIN sqlite, f \in FilterInputs :
      SqlWhere(sqlite[id], f) <=> matchesAllFilters(RowToNote(sqlite[id]), f)

----------------------------------------------------------------------------
(* A find beside a push.  The call of GET /sync/pull?lastSync=0 is kept under
   the key "pull":
     pc        "find"    awaiting SqliteAdapter.find
               "rquery"  awaiting the Firestore query
               "cache"   in the loop over filteredRemote, caching note: sql
                         and file are the states of SqliteAdapter.upsert and
                         of FileAdapter.upsert, awaited one after the other
               "done"    the response has been sent
     existing  localNotes, then merged
     todo      the documents of filteredRemote still to cache
     seen      the ids SQLite held when SqliteAdapter.find answered *)

(* The loop over filteredRemote goes to its next document, or find returns *)
NextToCache(c) ==
  IF c.todo = <<>>
  THEN [c EXCEPT !.pc = "done", !.status = "ok",
                 !.existing = SortByUpdatedAtDesc(@), !.sql = "idle", !.file = "idle"]
  ELSE [c EXCEPT !.pc = "cache", !.note = Head(c.todo), !.todo = Tail(c.todo),
                 !.existing = Append(@, Head(c.todo)), !.sql = "get", !.file = "idle"]

(* The request arrives and runs to `await SqliteAdapter.find(filters)` *)
FindArrives(u) ==
  /\ ~Has(Calls, "pull")
  /\ SetCall("pull", [uid |-> u, pc |-> "find", note |-> <<>>, existing |-> <<>>,
                      todo |-> <<>>, seen |-> {}, status |-> "none",
                      sql |-> "idle", file |-> "idle"])
  /\ UNCHANGED <<sqlite, files, remote, firestore, now, resp, faults>>

(* SqliteAdapter.find answers *)
FindLocal ==
  /\ Has(Calls, "pull") /\ Calls["pull"].pc = "find"
  /\ LET c == Calls["pull"] IN
     \E loc \in SqliteFind(sqlite, PullFilters(c.uid, 0)) :
       SetCall("pull", [c EXCEPT !.existing = loc, !.seen = DOMAIN sqlite,
                                 !.pc = IF firestore THEN "rquery" ELSE "done",
                                 !.status = IF firestore THEN "none" ELSE "ok"])
  /\ UNCHANGED <<sqlite, files, remote, firestore, now, resp, faults>>

(* The Firestore query answers: filteredRemote, less the ids of localNotes *)
FindRemote ==
  /\ Has(Calls, "pull") /\ Calls["pull"].pc = "rquery"
  /\ LET c == Calls["pull"]
         f == PullFilters(c.uid, 0)
         filteredRemote == SelectSeq(RemoteQuery(remote, f), LAMBDA n : matchesFilters(n, f))
         localIds == {c.existing[i].id : i \in DOMAIN c.existing}
     IN SetCall("pull", NextToCache([c EXCEPT !.todo =
                          SelectSeq(filteredRemote, LAMBDA n : n.id \notin localIds)]))
  /\ UNCHANGED <<sqlite, files, remote, firestore, now, resp, faults>>

(* In the try block of the loop: after SqliteAdapter.upsert(rn) the file
   write is started, after FileAdapter.upsert(rn) the loop goes on; a throw
   of SqliteAdapter.upsert is caught and the loop goes on *)
CacheStep ==
  /\ Has(Calls, "pull") /\ Calls["pull"].pc = "cache"
  /\ LET c == Calls["pull"]
     IN \/ c.sql = "failed" /\ SetCall("pull", NextToCache(c))
        \/ c.sql = "done" /\ c.file = "idle" /\ SetCall("pull", [c EXCEPT !.file = "pending"])
        \/ c.sql = "done" /\ c.file = "done" /\ SetCall("pull", NextToCache(c))
  /\ UNCHANGED <<sqlite, files, remote, firestore, now, resp, faults>>

MergeInit == Init /\ firestore

MergeNext ==
  \/ \E raw \in AsyncNotes : PushArrives("u1", raw)
  \/ AdapterGet("u1")
  \/ FirestoreGet("u1")
  \/ \E k \in {"u1", "pull"} : SqliteUpsertGet(k)
  \/ \E k \in {"u1", "pull"} : SqliteUpsertRun(k)
  \/ \E k \in {"u1", "pull"} : FileWrite(k)
  \/ PromiseAll("u1")
  \/ FirestoreSet("u1")
  \/ \E u \in Users : FindArrives(u)
  \/ FindLocal
  \/ FindRemote
  \/ CacheStep

MergeSpec == MergeInit /\ [][MergeNext]_vars

(* C32 (as claimed): when the find caches a Firestore document in SQLite and
   SQLite holds a row of that id which it did not hold when the find read its
   local rows, the row stays as it is. *)
C32_CachingKeepsNewRecord ==
  [][(/\ Has(Calls, "pull") /\ Calls["pull"].pc = "cache"
      /\ Calls["pull"].sql \in {"insert", "update"}
      /\ Calls'["pull"].sql = "done") =>
       LET id == Calls["pull"].note.id
       IN (Has(sqlite, id) /\ id \notin Calls["pull"].seen) => sqlite'[id] = sqlite[id]]_vars

====
